---- MODULE Spec2Model ----
(***************************************************************************)
(* Model of src/src/rtc_sentinel_stack.py: the stack co-registration       *)
(* pipeline match_raw_stack with its helpers ingest_raw_stack, get_dates,  *)
(* get_poly, fix_diff_par and rtc_granule, and the grid parameters of      *)
(* create_dem_par.                                                         *)
(*                                                                         *)
(* The script is Python 2 (xrange); numbers follow the Python 2 rules:     *)
(* "{}".format(x) of a float x is str(x), 12 significant digits.           *)
(***************************************************************************)
EXTENDS Integers, Sequences, FiniteSets, TLC

\* ------------------------------------------------------------------------
\* Bounds of the model
\* ------------------------------------------------------------------------
MaxScenes == 3      \* longest input list of the pipeline
MaxRuns == 2        \* runs of the script in one working directory
MaxLen == 4         \* longest list handed to get_dates on its own
MaxTok == 3         \* date tokens of the get_dates inputs are 1..MaxTok
Decimals == 2       \* the tools write offsets with this many decimals
MaxCoord == 2       \* projected coordinates are -MaxCoord..MaxCoord half metres
MaxPost == 2        \* snap interval and pixel size are 1..MaxPost metres

\* ------------------------------------------------------------------------
\* Decimal numbers.  A float is modelled by its shortest decimal expansion
\*   (-1)^neg * 0.d1 d2 ... dk * 10^exp      (d1 # 0, dk # 0; zero: dig=<<>>)
\* A number as TEXT in a file has the same shape but may carry leading and
\* trailing zeros ("0.50000").
\* ------------------------------------------------------------------------
Digit == 0..9

Zero == [neg |-> FALSE, dig |-> << >>, exp |-> 0]

RECURSIVE StripTrail(_)
StripTrail(s) ==
    IF s = << >> THEN s
    ELSE IF s[Len(s)] = 0 THEN StripTrail(SubSeq(s, 1, Len(s) - 1))
    ELSE s

RECURSIVE LeadZeros(_)
LeadZeros(s) ==
    IF s = << >> THEN 0
    ELSE IF s[1] = 0 THEN 1 + LeadZeros(Tail(s))
    ELSE 0

\* float(text): the value of a decimal text
float(t) ==
    LET z == LeadZeros(t.dig)
        d == StripTrail(SubSeq(t.dig, z + 1, Len(t.dig)))
    IN  IF d = << >> THEN Zero
        ELSE [neg |-> t.neg, dig |-> d, exp |-> t.exp - z]

\* add one unit in the last place of a digit string; the carry out of the
\* first digit is returned in .carry
RECURSIVE IncDigits(_)
IncDigits(s) ==
    IF s = << >> THEN [dig |-> << >>, carry |-> TRUE]
    ELSE IF s[Len(s)] < 9
         THEN [dig |-> [s EXCEPT ![Len(s)] = s[Len(s)] + 1], carry |-> FALSE]
         ELSE LET r == IncDigits(SubSeq(s, 1, Len(s) - 1))
              IN  [dig |-> Append(r.dig, 0), carry |-> r.carry]

\* the digits after position p are more than / exactly half a unit of p
RECURSIVE AllZero(_)
AllZero(s) == s = << >> \/ (s[1] = 0 /\ AllZero(Tail(s)))

RoundsUp(head, rest) ==
    /\ rest # << >>
    /\ \/ rest[1] > 5
       \/ rest[1] = 5 /\ ~AllZero(Tail(rest))
       \/ rest[1] = 5 /\ AllZero(Tail(rest)) /\ head[Len(head)] % 2 = 1

\* v rounded to p significant digits
RoundSig(v, p) ==
    IF Len(v.dig) <= p THEN v
    ELSE LET head == SubSeq(v.dig, 1, p)
             rest == SubSeq(v.dig, p + 1, Len(v.dig))
         IN  IF ~RoundsUp(head, rest)
             THEN [v EXCEPT !.dig = StripTrail(head)]
             ELSE LET r == IncDigits(head)
                  IN  IF r.carry
                      THEN [v EXCEPT !.dig = <<1>>, !.exp = v.exp + 1]
                      ELSE [v EXCEPT !.dig = StripTrail(r.dig)]

\* Python 2 float.__str__ keeps 12 significant digits ("%.12g")
StrPrecision == 12

\* a variant that writes the number with 6 significant digits ("%g")
FormatFloatShort(v) == RoundSig(v, StrPrecision \div 2)

\* "{}".format(x) for a float x: the text written to the file
FormatFloat(v) == RoundSig(v, StrPrecision)

\* ------------------------------------------------------------------------
\* Names.  A file name is kept as the list of its fields together with the
\* separator they are joined by ("_" in SAFE names, "-" in the names of the
\* measurement tiffs and of the .mgrd files made from them).  A field is a
\* word number w (the date tokens are ordered as their numbers) and its
\* letter case: the tiff names carry the date token in lower case.
\* ------------------------------------------------------------------------
Filler == [w |-> 0, lc |-> FALSE]

\* str.split(sep): a name without the separator is one field
Split(name, sep) == IF name.sep = sep THEN name.f ELSE <<Filler>>

\* str.upper()
upper(tok) == [tok EXCEPT !.lc = FALSE]

\* order of str: by word, an upper-case letter before its lower-case one
TokLE(a, b) == a.w < b.w \/ (a.w = b.w /\ (a.lc => b.lc))

\* fi.split(sep)[4] exists
HasDate(fi, sep) == Len(Split(fi, sep)) >= 5

\* string = fi.split(sep)[4]; date = string.split(sep)[0].upper()
DateOf(fi, sep) == upper(Split(fi, sep)[5])

\* a variant of the insertion step of the sort that puts a row before the
\* rows of equal key (not stable)
RECURSIVE InsertBefore(_, _)
InsertBefore(s, m) ==
    IF s = << >> THEN <<m>>
    ELSE IF TokLE(m[2], s[1][2]) THEN <<m>> \o s
    ELSE <<s[1]>> \o InsertBefore(Tail(s), m)

\* list.sort(key = lambda row: row[1]) is stable: a row goes after every
\* row whose key is not greater
RECURSIVE Insert(_, _)
Insert(s, m) ==
    IF s = << >> THEN <<m>>
    ELSE IF TokLE(s[1][2], m[2]) THEN <<s[1]>> \o Insert(Tail(s), m)
    ELSE <<m>> \o s

RECURSIVE SortRows(_)
SortRows(s) ==
    IF s = << >> THEN s
    ELSE Insert(SortRows(SubSeq(s, 1, Len(s) - 1)), s[Len(s)])

\* a variant of get_dates that passes over the names without a date field
get_dates_skip(file_list, sep) ==
    LET RECURSIVE Keep(_)
        Keep(l) == IF l = << >> THEN l
                   ELSE IF HasDate(l[1], sep) THEN <<l[1]>> \o Keep(Tail(l))
                   ELSE Keep(Tail(l))
        kept == Keep(file_list)
        date_and_file ==
            SortRows([i \in 1..Len(kept) |-> <<kept[i], DateOf(kept[i], sep)>>])
    IN  [ok |-> TRUE,
         files |-> [i \in 1..Len(date_and_file) |-> date_and_file[i][1]],
         dates |-> [i \in 1..Len(date_and_file) |-> date_and_file[i][2]]]

\* get_dates(file_list, sep): ok = FALSE is the IndexError of split(sep)[4]
get_dates(file_list, sep) ==
    IF \E i \in 1..Len(file_list) : ~HasDate(file_list[i], sep)
    THEN [ok |-> FALSE, files |-> << >>, dates |-> << >>]
    ELSE LET date_and_file ==
                 SortRows([i \in 1..Len(file_list) |->
                              <<file_list[i], DateOf(file_list[i], sep)>>])
         IN  [ok |-> TRUE,
              files |-> [i \in 1..Len(date_and_file) |-> date_and_file[i][1]],
              dates |-> [i \in 1..Len(date_and_file) |-> date_and_file[i][2]]]

\* ------------------------------------------------------------------------
\* Arithmetic of the offsets.  The offsets the tools write lie on the grid
\* of 10^-Decimals; on that grid az_new + az is computed in units of the
\* grid.
\* ------------------------------------------------------------------------
RECURSIVE Pow10(_)
Pow10(n) == IF n <= 0 THEN 1 ELSE 10 * Pow10(n - 1)

RECURSIVE DigitsValue(_, _)
\* value of the digits s, the last of which has weight 10^e
DigitsValue(s, e) ==
    IF s = << >> THEN 0
    ELSE s[Len(s)] * Pow10(e) + DigitsValue(SubSeq(s, 1, Len(s) - 1), e + 1)

ToUnits(v) ==
    LET m == DigitsValue(v.dig, v.exp - Len(v.dig) + Decimals)
    IN  IF v.neg THEN 0 - m ELSE m

RECURSIVE DigitsOf(_)
DigitsOf(n) == IF n < 10 THEN <<n>> ELSE Append(DigitsOf(n \div 10), n % 10)

Abs(n) == IF n < 0 THEN 0 - n ELSE n

\* the text "%.<Decimals>f" of n units, as the tools print it ("0.50")
TextOfUnits(n) ==
    LET d == DigitsOf(Abs(n))
        pad == IF Len(d) < Decimals
               THEN [i \in 1..(Decimals - Len(d)) |-> 0] \o d ELSE d
    IN  [neg |-> n < 0, dig |-> pad, exp |-> Len(pad) - Decimals]

FromUnits(n) == float(TextOfUnits(n))

\* a + b of two floats
FloatAdd(a, b) == FromUnits(ToUnits(a) + ToUnits(b))

\* ------------------------------------------------------------------------
\* Offset-parameter files: a list of lines  key: v1 v2 ...
\* ------------------------------------------------------------------------
RangeKey == "range_offset_polynomial"
AzKey == "azimuth_offset_polynomial"

\* `word in line`: in the files create_diff_par writes a keyword occurs
\* only as the key of its own line
Contains(line, word) == line.key = word

PolyLine(key, c0) == [key |-> key, val |-> <<c0, Zero, Zero, Zero, Zero, Zero>>]

\* the file create_diff_par writes for a pair: both polynomials zero
NewDiffPar ==
    << [key |-> "title", val |-> << >>],
       [key |-> "range_samp_1", val |-> <<TextOfUnits(100 * Pow10(Decimals))>>],
       PolyLine(RangeKey, TextOfUnits(0)),
       PolyLine(AzKey, TextOfUnits(0)),
       [key |-> "starting_azimuth_line", val |-> <<TextOfUnits(0)>>] >>

\* the file after init_offsetm has found the offset (az, ra), in units
WithEstimate(lines, az, ra) ==
    [i \in 1..Len(lines) |->
        IF lines[i].key = RangeKey THEN PolyLine(RangeKey, TextOfUnits(ra))
        ELSE IF lines[i].key = AzKey THEN PolyLine(AzKey, TextOfUnits(az))
        ELSE lines[i]]

\* getParameter(parFile, parameter): the value of the line of that key;
\* found = FALSE when no line has it
getParameter(lines, parameter) ==
    LET idx == {i \in 1..Len(lines) : lines[i].key = parameter}
    IN  IF idx = {} THEN [found |-> FALSE, val |-> << >>]
        ELSE [found |-> TRUE,
              val |-> lines[CHOOSE i \in idx : \A j \in idx : j <= i].val]

\* variants of get_poly: without the running total, and with the two
\* polynomials exchanged
get_poly_last(az, ra, lines) ==
    LET polyra == getParameter(lines, RangeKey).val
        polyaz == getParameter(lines, AzKey).val
    IN  <<float(polyaz[1]), float(polyra[1])>>

get_poly_swapped(az, ra, lines) ==
    LET polyra == getParameter(lines, AzKey).val
        polyaz == getParameter(lines, RangeKey).val
    IN  <<FloatAdd(float(polyaz[1]), az), FloatAdd(float(polyra[1]), ra)>>

\* get_poly(az, ra, diff_par): returns (az_new + az, ra_new + ra)
get_poly(az, ra, lines) ==
    LET polyra == getParameter(lines, RangeKey).val
        polyaz == getParameter(lines, AzKey).val
        ra_new == float(polyra[1])
        az_new == float(polyaz[1])
    IN  <<FloatAdd(az_new, az), FloatAdd(ra_new, ra)>>

\* a variant of fix_diff_par with the two coefficients exchanged
fix_diff_par_swapped(az, ra, lines) ==
    [i \in 1..Len(lines) |->
        IF Contains(lines[i], RangeKey)
        THEN PolyLine(RangeKey, FormatFloat(az))
        ELSE IF Contains(lines[i], AzKey)
        THEN PolyLine(AzKey, FormatFloat(ra))
        ELSE lines[i]]

\* fix_diff_par(az, ra, diff_par): the lines written to <pair>_accum.par
fix_diff_par(az, ra, lines) ==
    [i \in 1..Len(lines) |->
        IF Contains(lines[i], RangeKey)
        THEN PolyLine(RangeKey, FormatFloat(ra))
        ELSE IF Contains(lines[i], AzKey)
        THEN PolyLine(AzKey, FormatFloat(az))
        ELSE lines[i]]

\* the value of new_par = fix_diff_par(...): the function has no return
\* statement, so it is None (written << >>) whatever file was written
FixReturn(outfile) == << >>

\* ------------------------------------------------------------------------
\* State
\* ------------------------------------------------------------------------
VARIABLES
    argv,          \* the scenes named on the command line
    infiles,       \* the list match_raw_stack works on (ingest renames zips)
    pc,            \* where the run is
    x,             \* the loop index of the stage the run is in (from 1)
    run,           \* number of the run in this working directory
    mgrd_files,    \* the list ingest_raw_stack returns
    sorted_mgrd,   \* get_dates(mgrd_files)
    dates,
    sorted_files,  \* get_dates(infiles, sep = "_")
    tmp,
    disk,          \* the parameter files of the working directory
    mgrds,         \* the .mgrd files of the working directory
    atStart,       \* the parameter files present when the run began
    polyaz,        \* running totals of match_raw_stack
    polyra,
    acc,           \* the totals get_poly returned, one entry per scene
    log,           \* the external calls of this run, in order
    status,        \* how the run ended
    products,      \* scenes whose rasters are in RTC_PRODUCTS
    call,          \* arguments of a function called on its own
    ret            \* its result

pipeVars == <<argv, infiles, pc, x, run, mgrd_files, sorted_mgrd, dates,
              sorted_files, tmp, disk, mgrds, atStart, polyaz, polyra, acc,
              log, status, products>>
vars == <<argv, infiles, pc, x, run, mgrd_files, sorted_mgrd, dates,
          sorted_files, tmp, disk, mgrds, atStart, polyaz, polyra, acc,
          log, status, products, call, ret>>

\* ------------------------------------------------------------------------
\* Scenes
\* ------------------------------------------------------------------------
\* the name of a measurement tiff, s1a-iw-grd-vv-<date>-..., and of the
\* .mgrd file made from it
VV == [w |-> 0, lc |-> TRUE]
HH == [w |-> 1, lc |-> TRUE]
\* a scene that holds a vv tiff and an hh tiff
Both == [w |-> 2, lc |-> TRUE]

TiffName(pol, td) ==
    [sep |-> "-", f |-> <<Filler, Filler, Filler, pol, [w |-> td, lc |-> TRUE]>>]

\* a scene S1A_IW_GRDH_1SDV_<date>_... given as .SAFE directory or as .zip;
\* d = 0 is a name without the date field
SceneOf(d, zip, pol, td) ==
    [sep |-> "_",
     f |-> IF d = 0 THEN <<Filler, Filler>>
           ELSE <<Filler, Filler, Filler, Filler, [w |-> d, lc |-> FALSE]>>,
     zip |-> zip,
     tiff |-> TiffName(pol, td)]

\* a date other than d
OtherDate(d) == (d % MaxScenes) + 1

\* the dates of n scenes, by their order of acquisition: dates 1..m, given
\* oldest first or newest first, scenes of one date next to each other
DateLists(n) ==
    {ds \in [1..n -> 1..n] :
        /\ \A d \in 1..n : (\E i \in 1..n : ds[i] >= d) => (\E i \in 1..n : ds[i] = d)
        /\ \/ \A i \in 1..(n - 1) : ds[i] <= ds[i + 1]
           \/ \A i \in 1..(n - 1) : ds[i] >= ds[i + 1]}

\* The command lines: 1..MaxScenes scenes, given as .SAFE directories whose
\* tiff carries the date of the directory name, but for one of
\*   "zip"     scene k is given as archive
\*   "allzip"  every scene is given as archive
\*   "nodate"  the name of scene k has no date field
\*   "tiff"    the tiff of scene k carries another date than its directory
\*   "hh"      the scenes are HH scenes (only ingestion tells them from VV
\*             scenes, so they come with the dates 1, 2, .. alone); all
\*             others are VV scenes
\*   "dual"    scene k holds an hh tiff besides its vv tiff
Stack(ds, kind, k) ==
    [i \in 1..Len(ds) |->
        IF kind = "allzip" THEN SceneOf(ds[i], TRUE, VV, ds[i])
        ELSE IF kind = "hh" THEN SceneOf(ds[i], FALSE, HH, ds[i])
        ELSE IF i # k \/ kind = "plain" THEN SceneOf(ds[i], FALSE, VV, ds[i])
        ELSE IF kind = "zip" THEN SceneOf(ds[i], TRUE, VV, ds[i])
        ELSE IF kind = "nodate" THEN SceneOf(0, FALSE, VV, ds[i])
        ELSE IF kind = "dual" THEN SceneOf(ds[i], FALSE, Both, ds[i])
        ELSE SceneOf(ds[i], FALSE, VV, OtherDate(ds[i]))]

Stacks ==
    UNION {{Stack(ds, kind, k) :
               ds \in DateLists(n),
               kind \in {"plain", "zip", "allzip", "nodate", "tiff", "dual"},
               k \in 1..n}
           \cup {Stack([i \in 1..n |-> i], "hh", n)} :
           n \in 1..MaxScenes}

\* the offsets (az, ra) init_offsetm may find, in units: 0.5/-0.2, 0.3/0.1
Tenth == Pow10(Decimals - 1)
Estimates == {<<5 * Tenth, 0 - 2 * Tenth>>, <<3 * Tenth, Tenth>>}

\* "{}_{}.par".format(dates[x], dates[x+1])
ParName(d1, d2) == [a |-> d1, b |-> d2, accum |-> FALSE]

\* diff_par.replace(".par", "") + "_accum.par"
AccumName(par) == [par EXCEPT !.accum = TRUE]

Exists(par) == par \in DOMAIN disk

Entry(tool, i, res, stack) == [tool |-> tool, i |-> i, res |-> res, stack |-> stack]

\* ------------------------------------------------------------------------
\* A run of match_raw_stack(infiles, res)
\* ------------------------------------------------------------------------
StartRun(files, n) ==
    /\ infiles = files
    /\ pc = "ingest"
    /\ x = 1
    /\ run = n
    /\ mgrd_files = << >>
    /\ sorted_mgrd = << >>
    /\ dates = << >>
    /\ sorted_files = << >>
    /\ tmp = << >>
    /\ polyaz = Zero
    /\ polyra = Zero
    /\ acc = << >>
    /\ log = << >>
    /\ status = "running"

Init ==
    /\ argv \in Stacks
    /\ StartRun(argv, 1)
    /\ disk = << >>
    /\ mgrds = {}
    /\ atStart = {}
    /\ products = {}
    /\ call = << >>
    /\ ret = << >>

Abort(why) ==
    /\ pc' = "aborted"
    /\ status' = why

\* glob("<infile>/*/*vv*.tiff"), glob("<infile>/*/*hh*.tiff"), with infile
\* still the name of the archive: nothing is found in it
glob(infile, pol) ==
    IF ~infile.zip /\ infile.tiff.f[4] \in {pol, Both}
    THEN <<[infile.tiff EXCEPT !.f[4] = pol]>> ELSE << >>

\* ingest_raw_stack, one pass of its loop over infiles
IngestScene ==
    /\ pc = "ingest"
    /\ x <= Len(infiles)
    /\ LET infile == infiles[x]
           vvlist == glob(infile, VV)
           hhlist == glob(infile, HH)
       IN  /\ infiles' = IF infile.zip
                         THEN [infiles EXCEPT ![x] = [infile EXCEPT !.zip = FALSE]]
                         ELSE infiles
           /\ log' = log
                     \o (IF infile.zip
                         THEN <<Entry("extractall", x, "ok", << >>)>> ELSE << >>)
                     \o [i \in 1..Len(vvlist) |->
                            IF vvlist[i] \in mgrds
                            THEN Entry("mgrd_exists", x, "skipped", << >>)
                            ELSE Entry("ingest_S1_granule", x, "made", << >>)]
                     \o [i \in 1..Len(hhlist) |->
                            Entry("ingest_S1_granule", x,
                                  IF hhlist[i] \in mgrds THEN "rewritten" ELSE "made",
                                  << >>)]
           /\ mgrds' = mgrds \cup {vvlist[i] : i \in 1..Len(vvlist)}
                             \cup {hhlist[i] : i \in 1..Len(hhlist)}
           /\ mgrd_files' = mgrd_files \o vvlist \o hhlist
    /\ IF x < Len(infiles)
       THEN x' = x + 1 /\ pc' = pc
       ELSE x' = 1 /\ pc' = "dem"
    /\ UNCHANGED <<argv, run, sorted_mgrd, dates, sorted_files, tmp, disk, atStart,
                   polyaz, polyra, acc, status, products, call, ret>>

\* create_dem_par_files(infiles)
CreateDemParFiles ==
    /\ pc = "dem"
    /\ log' = log \o [i \in 1..Len(infiles) |-> Entry("create_dem_par", i, "ok", << >>)]
    /\ pc' = "sort"
    /\ UNCHANGED <<argv, infiles, x, run, mgrd_files, sorted_mgrd, dates,
                   sorted_files, tmp, disk, mgrds, atStart, polyaz, polyra, acc,
                   status, products, call, ret>>

\* a variant of the date check that compares the first dates only
FirstBadHead(ds, ts) ==
    IF ds # << >> /\ (ts = << >> \/ ds[1] # ts[1]) THEN 1 ELSE 0

\* the first index at which the loop over dates stops, 0 if it runs through
FirstBad(ds, ts) ==
    LET bad == {i \in 1..Len(ds) : i > Len(ts) \/ ds[i] # ts[i]}
    IN  IF bad = {} THEN 0 ELSE CHOOSE i \in bad : \A j \in bad : i <= j

\* the two get_dates calls and the date check of match_raw_stack
SortAndCheck ==
    /\ pc = "sort"
    /\ LET m == get_dates(mgrd_files, "-")
           s == get_dates(infiles, "_")
           bad == FirstBad(m.dates, s.dates)
       IN  IF ~m.ok
           THEN Abort("IndexError")
                /\ UNCHANGED <<sorted_mgrd, dates, sorted_files, tmp, x, atStart>>
           ELSE /\ sorted_mgrd' = m.files
                /\ dates' = m.dates
                /\ IF ~s.ok
                   THEN Abort("IndexError")
                        /\ UNCHANGED <<sorted_files, tmp, x>>
                   ELSE /\ sorted_files' = s.files
                        /\ tmp' = s.dates
                        /\ IF bad # 0
                           THEN Abort(IF bad > Len(s.dates) THEN "IndexError"
                                      ELSE "mismatch")
                                /\ UNCHANGED x
                           ELSE /\ pc' = IF Len(m.files) >= 2 THEN "pair" ELSE "rtc0"
                                /\ x' = 1
                                /\ status' = status
    /\ UNCHANGED <<argv, infiles, run, mgrd_files, disk, mgrds, atStart, polyaz,
                   polyra, acc, log, products, call, ret>>

\* ------------------------------------------------------------------------
\* The loop over the adjacent pairs (x, x+1); the pair's parameter file is
\* diff_par.  os.system returns the exit status of the tool, which the
\* script does not look at.
\* ------------------------------------------------------------------------
diff_par == ParName(dates[x], dates[x + 1])

\* a variant of the loop over the pairs that ends after the first pair
NextPairEarly == x' = 1 /\ pc' = "rtc0"

NextPair ==
    IF x < Len(sorted_mgrd) - 1
    THEN x' = x + 1 /\ pc' = "pair"
    ELSE x' = 1 /\ pc' = "rtc0"

\* a variant of the test for the pair's file that never finds it
ParPresentNever(par) == FALSE

\* os.path.exists(diff_par)
ParPresent(par) == Exists(par)

\* the pair's file exists: nothing is estimated
SkipPair ==
    /\ pc = "pair"
    /\ ParPresent(diff_par)
    /\ NextPair
    /\ UNCHANGED <<argv, infiles, run, mgrd_files, sorted_mgrd, dates, sorted_files,
                   tmp, disk, mgrds, atStart, polyaz, polyra, acc, log, status,
                   products, call, ret>>

\* create_diff_par par1 par2 diff_par 1 < diff_par.in
CreateDiffPar ==
    /\ pc = "pair"
    /\ ~ParPresent(diff_par)
    /\ \E res \in {"ok", "fail"} :
          /\ log' = Append(log, Entry("create_diff_par", x, res, << >>))
          /\ disk' = IF res = "ok" THEN (diff_par :> NewDiffPar) @@ disk ELSE disk
    /\ pc' = "init"
    /\ UNCHANGED <<argv, infiles, x, run, mgrd_files, sorted_mgrd, dates,
                   sorted_files, tmp, mgrds, atStart, polyaz, polyra, acc, status,
                   products, call, ret>>

\* Tier 1: init_offsetm mgrd1 mgrd2 diff_par inside try.  The tool either
\* writes the offset it found into diff_par ("ok") or ends with a non-zero
\* status ("fail"); "raise" is an exception reaching the bare except (an
\* interrupt while the tool runs).
InitOffset ==
    /\ pc = "init"
    /\ \E res \in {"ok", "fail", "raise"} :
          /\ res = "ok" => Exists(diff_par)
          /\ log' = Append(log, Entry("init_offsetm", x, res, << >>))
          /\ IF res = "ok"
             THEN \E e \in Estimates :
                     disk' = [disk EXCEPT ![diff_par] = WithEstimate(@, e[1], e[2])]
             ELSE disk' = disk
          /\ pc' = IF res = "raise" THEN "except" ELSE "read"
    /\ UNCHANGED <<argv, infiles, x, run, mgrd_files, sorted_mgrd, dates,
                   sorted_files, tmp, mgrds, atStart, polyaz, polyra, acc, status,
                   products, call, ret>>

\* the except branch: offset_pwrm is run; the offset_fitm command is only
\* formatted, so the inner except is never entered
Fallback ==
    /\ pc = "except"
    /\ \E res \in {"ok", "lowsnr"} :
          log' = Append(log, Entry("offset_pwrm", x, res, << >>))
    /\ pc' = "read"
    /\ UNCHANGED <<argv, infiles, x, run, mgrd_files, sorted_mgrd, dates,
                   sorted_files, tmp, disk, mgrds, atStart, polyaz, polyra, acc,
                   status, products, call, ret>>

\* polyra/polyaz = getParameter(diff_par, ...): raises when the file or the
\* parameter is missing
ReadPoly ==
    /\ pc = "read"
    /\ IF /\ Exists(diff_par)
          /\ getParameter(disk[diff_par], RangeKey).found
          /\ getParameter(disk[diff_par], AzKey).found
       THEN pc' = "pwrm" /\ status' = status
       ELSE Abort("getParameter")
    /\ UNCHANGED <<argv, infiles, x, run, mgrd_files, sorted_mgrd, dates,
                   sorted_files, tmp, disk, mgrds, atStart, polyaz, polyra, acc,
                   log, products, call, ret>>

\* a variant of the step after the read-back that runs offset_pwrm only
\* when init_offsetm has not succeeded for the pair
OffsetPwrmIfNeeded ==
    /\ pc = "pwrm"
    /\ IF \E k \in 1..Len(log) :
              log[k].tool = "init_offsetm" /\ log[k].i = x /\ log[k].res = "ok"
       THEN log' = log
       ELSE \E res \in {"ok", "lowsnr"} :
               /\ \A k \in 1..Len(log) :
                     (log[k].tool = "offset_pwrm" /\ log[k].i = x) => log[k].res = res
               /\ log' = Append(log, Entry("offset_pwrm", x, res, << >>))
    /\ NextPair
    /\ UNCHANGED <<argv, infiles, run, mgrd_files, sorted_mgrd, dates, sorted_files,
                   tmp, disk, mgrds, atStart, polyaz, polyra, acc, status, products,
                   call, ret>>

\* offset_pwrm after the try; again the offset_fitm command is only
\* formatted.  Run a second time on the same grids, the tool finds what it
\* found the first time.
OffsetPwrm ==
    /\ pc = "pwrm"
    /\ \E res \in {"ok", "lowsnr"} :
          /\ \A k \in 1..Len(log) :
                (log[k].tool = "offset_pwrm" /\ log[k].i = x) => log[k].res = res
          /\ log' = Append(log, Entry("offset_pwrm", x, res, << >>))
    /\ NextPair
    /\ UNCHANGED <<argv, infiles, run, mgrd_files, sorted_mgrd, dates, sorted_files,
                   tmp, disk, mgrds, atStart, polyaz, polyra, acc, status, products,
                   call, ret>>

\* ------------------------------------------------------------------------
\* Product generation
\* ------------------------------------------------------------------------
\* rtc_granule(fi, prod_dir, res, stack): rtc_sentinel_gamma either makes
\* the rasters, which are then copied to RTC_PRODUCTS, or raises
RtcGranule(i, fi, stack, res) ==
    /\ log' = Append(log, Entry("rtc_granule", i, res, stack))
    /\ products' = IF res = "ok" THEN products \cup {fi} ELSE products

AfterScene(i, res) ==
    IF res # "ok" THEN Abort("rtc") /\ x' = x
    ELSE IF i < Len(sorted_mgrd)
    THEN pc' = "stack" /\ x' = i + 1 /\ status' = status
    ELSE pc' = "done" /\ x' = x /\ status' = "ok"

\* rtc_granule(sorted_files[0], prod_dir, res); polyaz = 0; polyra = 0
RtcReference ==
    /\ pc = "rtc0"
    /\ \E res \in {"ok", "fail"} :
          /\ RtcGranule(1, sorted_files[1], << >>, res)
          /\ AfterScene(1, res)
    /\ polyaz' = Zero
    /\ polyra' = Zero
    /\ acc' = << <<Zero, Zero>> >>
    /\ UNCHANGED <<argv, infiles, run, mgrd_files, sorted_mgrd, dates, sorted_files,
                   tmp, disk, mgrds, atStart, call, ret>>

\* one pass of the loop over x in 1..len(sorted_mgrd)-1: get_poly,
\* fix_diff_par, rtc_granule(sorted_files[x], prod_dir, res, stack=new_par)
StackScene ==
    /\ pc = "stack"
    /\ LET par == ParName(dates[x - 1], dates[x])
       IN  IF ~(/\ Exists(par)
                /\ getParameter(disk[par], RangeKey).found
                /\ getParameter(disk[par], AzKey).found)
           THEN /\ Abort("getParameter")
                /\ UNCHANGED <<x, polyaz, polyra, acc, disk, log, products>>
           ELSE LET p == get_poly(polyaz, polyra, disk[par])
                    outfile == AccumName(par)
                    new_par == FixReturn(outfile)
                IN  /\ polyaz' = p[1]
                    /\ polyra' = p[2]
                    /\ acc' = Append(acc, p)
                    /\ disk' = (outfile :> fix_diff_par(p[1], p[2], disk[par])) @@ disk
                    /\ \E res \in {"ok", "fail"} :
                          /\ RtcGranule(x, sorted_files[x], new_par, res)
                          /\ AfterScene(x, res)
    /\ UNCHANGED <<argv, infiles, run, mgrd_files, sorted_mgrd, dates, sorted_files,
                   tmp, mgrds, atStart, call, ret>>

\* the process is killed while it is in the body of the loop over the
\* pairs, between two of its steps: the files written so far are all that
\* is left of the run
Interrupt ==
    /\ pc \in {"init", "except", "read", "pwrm"}
    /\ Abort("killed")
    /\ UNCHANGED <<argv, infiles, x, run, mgrd_files, sorted_mgrd, dates,
                   sorted_files, tmp, disk, mgrds, atStart, polyaz, polyra, acc,
                   log, products, call, ret>>

\* the script is started again in the same working directory
Rerun ==
    /\ pc \in {"done", "aborted"}
    /\ run < MaxRuns
    /\ infiles' = argv
    /\ pc' = "ingest"
    /\ x' = 1
    /\ run' = run + 1
    /\ mgrd_files' = << >>
    /\ sorted_mgrd' = << >>
    /\ dates' = << >>
    /\ sorted_files' = << >>
    /\ tmp' = << >>
    /\ polyaz' = Zero
    /\ polyra' = Zero
    /\ acc' = << >>
    /\ log' = << >>
    /\ status' = "running"
    /\ atStart' = DOMAIN disk
    /\ UNCHANGED <<argv, disk, mgrds, products, call, ret>>

Next ==
    \/ IngestScene
    \/ CreateDemParFiles
    \/ SortAndCheck
    \/ SkipPair
    \/ CreateDiffPar
    \/ InitOffset
    \/ Fallback
    \/ ReadPoly
    \/ OffsetPwrm
    \/ RtcReference
    \/ StackScene
    \/ Interrupt
    \/ Rerun

Spec == Init /\ [][Next]_vars

\* ------------------------------------------------------------------------
\* get_dates and fix_diff_par called on their own
\* ------------------------------------------------------------------------
Idle ==
    /\ argv = << >>
    /\ infiles = << >>
    /\ pc = "idle"
    /\ x = 1
    /\ run = 1
    /\ mgrd_files = << >>
    /\ sorted_mgrd = << >>
    /\ dates = << >>
    /\ sorted_files = << >>
    /\ tmp = << >>
    /\ disk = << >>
    /\ mgrds = {}
    /\ atStart = {}
    /\ polyaz = Zero
    /\ polyra = Zero
    /\ acc = << >>
    /\ log = << >>
    /\ status = "running"
    /\ products = {}

\* the i-th name of a list: its third field tells the names of one date
\* apart; tok = 0 is a name that ends before the date field
NameAt(i, tok, lc) ==
    [sep |-> "_",
     f |-> IF tok = 0 THEN <<Filler, Filler, [w |-> i, lc |-> FALSE]>>
           ELSE <<Filler, Filler, [w |-> i, lc |-> FALSE], Filler,
                  [w |-> tok, lc |-> lc]>>]

\* what a name of the list may carry: a date token in either case, or none
NameKinds == ((1..MaxTok) \X BOOLEAN) \cup {<<0, FALSE>>}

InitDates ==
    /\ Idle
    /\ \E n \in 0..MaxLen :
          \E t \in [1..n -> NameKinds] :
             \E sep \in {"_", "-"} :
                call = [fn |-> "get_dates",
                        file_list |-> [i \in 1..n |-> NameAt(i, t[i][1], t[i][2])],
                        sep |-> sep]
    /\ ret = [done |-> FALSE]

CallGetDates ==
    /\ call.fn = "get_dates"
    /\ ~ret.done
    /\ ret' = [done |-> TRUE, out |-> get_dates(call.file_list, call.sep)]
    /\ UNCHANGED <<pipeVars, call>>

NextDates == CallGetDates

SpecDates == InitDates /\ [][NextDates]_vars

\* floats handed to fix_diff_par: 0.5, -0.2, 0.8, -0.1, 1.5e-05,
\* 12.3456789012345, 0.1 + 0.2 = 0.30000000000000004, 1/3. and 1 - 2^-53
Floats ==
    { [neg |-> FALSE, dig |-> <<5>>, exp |-> 0],
      [neg |-> TRUE, dig |-> <<2>>, exp |-> 0],
      [neg |-> FALSE, dig |-> <<8>>, exp |-> 0],
      [neg |-> TRUE, dig |-> <<1>>, exp |-> 0],
      [neg |-> FALSE, dig |-> <<1, 5>>, exp |-> 0 - 4],
      [neg |-> FALSE, dig |-> <<1, 2, 3, 4, 5, 6, 7, 8, 9, 0, 1, 2, 3, 4, 5>>, exp |-> 2],
      [neg |-> FALSE, dig |-> <<3, 0, 0, 0, 0, 0, 0, 0, 0, 0, 0, 0, 0, 0, 0, 0, 4>>,
       exp |-> 0],
      [neg |-> FALSE, dig |-> [i \in 1..16 |-> 3], exp |-> 0],
      [neg |-> TRUE, dig |-> [i \in 1..16 |-> 9], exp |-> 0] }

\* offset-parameter files: as create_diff_par leaves them, and after
\* init_offsetm
ParFiles ==
    {NewDiffPar} \cup {WithEstimate(NewDiffPar, e[1], e[2]) : e \in Estimates}

InitFix ==
    /\ Idle
    /\ call \in [fn : {"fix_diff_par"}, az : Floats, ra : Floats, lines : ParFiles]
    /\ ret = [done |-> FALSE]

CallFixDiffPar ==
    /\ call.fn = "fix_diff_par"
    /\ ~ret.done
    /\ ret' = [done |-> TRUE, out |-> fix_diff_par(call.az, call.ra, call.lines)]
    /\ UNCHANGED <<pipeVars, call>>

NextFix == CallFixDiffPar

SpecFix == InitFix /\ [][NextFix]_vars

\* ------------------------------------------------------------------------
\* create_dem_par called for scene after scene by create_dem_par_files.
\* Coordinates are floats on the grid of 10^-Decimals metres, held in
\* units of that grid; post and pixel_size are whole metres.
\* ------------------------------------------------------------------------
Unit == Pow10(Decimals)

\* a variant of floor that rounds towards zero
trunc(n, d) == IF n >= 0 THEN n \div d ELSE 0 - ((0 - n) \div d)

\* math.floor(n / d) and math.ceil(n / d) for d > 0
floor(n, d) == n \div d

ceil(n, d) == 0 - ((0 - n) \div d)

\* the values geometry_geo2proj may return for one coordinate
Coords == {k * 5 * Tenth : k \in (0 - MaxCoord)..MaxCoord}

\* create_dem_par from the projected extent on: the snapped extent, the
\* size of the grid, and the last two lines of the file
create_dem_par(pixel_size, y_min, y_max, x_min, x_max, post) ==
    LET g == post * Unit
        xmax == ceil(x_max, g) * g
        xmin == floor(x_min, g) * g
        ymax == ceil(y_max, g) * g
        ymin == floor(y_min, g) * g
    IN  [x_min |-> xmin, x_max |-> xmax, y_min |-> ymin, y_max |-> ymax,
         xsize |-> floor(Abs(xmax - xmin), pixel_size * Unit),
         ysize |-> floor(Abs(ymax - ymin), pixel_size * Unit),
         spacing |-> <<0 - pixel_size, pixel_size>>,
         corner |-> <<FormatFloat(FromUnits(ymax)), FormatFloat(FromUnits(xmin))>>]

\* create_dem_par_files with some pixel_size and post
InitDem ==
    /\ Idle
    /\ \E p, q \in 1..MaxPost :
          call = [fn |-> "create_dem_par", pixel_size |-> p, post |-> q,
                  extent |-> << >>]
    /\ ret = [earlier |-> << >>, out |-> << >>]

\* one pass of its loop: create_dem_par for a scene of any extent
CallCreateDemPar ==
    /\ call.fn = "create_dem_par"
    /\ call.extent = << >>
    /\ \E ymin, ymax, xmin, xmax \in Coords :
          /\ call' = [call EXCEPT !.extent = [y_min |-> ymin, y_max |-> ymax,
                                              x_min |-> xmin, x_max |-> xmax]]
          /\ ret' = [ret EXCEPT !.out = create_dem_par(call.pixel_size, ymin, ymax,
                                                       xmin, xmax, call.post)]
    /\ UNCHANGED pipeVars

\* the loop goes on to the next scene.  ret.earlier is the corner written
\* for one of the scenes so far, whichever.
NextScene ==
    /\ call.fn = "create_dem_par"
    /\ call.extent # << >>
    /\ call' = [call EXCEPT !.extent = << >>]
    /\ \E e \in {ret.earlier, ret.out.corner} :
          ret' = [earlier |-> e, out |-> << >>]
    /\ UNCHANGED pipeVars

NextDem ==
    \/ CallCreateDemPar
    \/ NextScene

SpecDem == InitDem /\ [][NextDem]_vars

\* ------------------------------------------------------------------------
\* Properties
\* ------------------------------------------------------------------------
EstTools == {"create_diff_par", "init_offsetm", "offset_pwrm", "offset_fitm"}

Entries(tools) == {k \in 1..Len(log) : log[k].tool \in tools}

Count(tool, i) ==
    Cardinality({k \in 1..Len(log) : log[k].tool = tool /\ log[k].i = i})

NoEstimation == Entries(EstTools) = {}

\* float(getParameter(file, key).split()[0])
Leading(lines, key) == float(getParameter(lines, key).val[1])

\* sum, in units, of the leading coefficients of the files of the pairs
\* (1,2) .. (i-1,i)
RECURSIVE SumOfPairs(_, _)
SumOfPairs(i, key) ==
    IF i <= 1 THEN 0
    ELSE SumOfPairs(i - 1, key)
         + ToUnits(Leading(disk[ParName(dates[i - 1], dates[i])], key))

\* C1: the totals used for scene i are, in azimuth and in range, the sum of
\* the leading coefficients of the estimates of the pairs (1,2) .. (i-1,i),
\* starting from (0, 0)
AccumulatedIsSum ==
    \A i \in 1..Len(acc) :
        /\ acc[i][1] = FromUnits(SumOfPairs(i, AzKey))
        /\ acc[i][2] = FromUnits(SumOfPairs(i, RangeKey))

\* the scenario of the spec: deltas (0.5, -0.2) and (0.3, 0.1) give
\* (0.5, -0.2) and (0.8, -0.1)
AccumulatedIsSumWitness ==
    /\ Len(acc) = 3
    /\ dates[1] # dates[2]
    /\ acc[2] = <<[neg |-> FALSE, dig |-> <<5>>, exp |-> 0],
                  [neg |-> TRUE, dig |-> <<2>>, exp |-> 0]>>
    /\ acc[3] = <<[neg |-> FALSE, dig |-> <<8>>, exp |-> 0],
                  [neg |-> TRUE, dig |-> <<1>>, exp |-> 0]>>

\* the estimation of the pairs is over and the run went on
PastPairs == pc \in {"rtc0", "stack", "done"}

Tier1Failed(i) ==
    \E k \in 1..Len(log) :
        log[k].tool = "init_offsetm" /\ log[k].i = i /\ log[k].res \in {"fail", "raise"}

\* C2: when Tier 1 (init_offsetm) fails for a pair, Tier 2, that is
\* offset_pwrm followed by offset_fitm, is invoked exactly once for that pair
Tier2OnceAfterTier1Failure ==
    PastPairs =>
        \A i \in 1..(Len(sorted_mgrd) - 1) :
            Tier1Failed(i) =>
                Count("offset_pwrm", i) = 1 /\ Count("offset_fitm", i) = 1

\* C3: when the multi-patch search of some pair finds no patch of
\* sufficient SNR, the run aborts and rtc_granule is called for no scene
NoProductAfterLowSNR ==
    (\E k \in 1..Len(log) : log[k].tool = "offset_pwrm" /\ log[k].res = "lowsnr")
        => (~PastPairs /\ Entries({"rtc_granule"}) = {})

\* C4: when the sorted dates of the multi-look grids and the sorted dates
\* of the scenes have the same length and differ at some index, the run
\* aborts with the mismatch error and no offset-estimation tool has run
MismatchAbortsBeforeEstimation ==
    (Len(dates) = Len(tmp) /\ dates # tmp)
        => (pc = "aborted" /\ status = "mismatch" /\ NoEstimation)

\* lists of length 3 that agree at the first index and differ at the next
MismatchWitness ==
    /\ status = "mismatch"
    /\ Len(dates) = 3
    /\ Len(tmp) = 3
    /\ dates[1] = tmp[1]
    /\ dates[2] # tmp[2]
    /\ Entries({"ingest_S1_granule"}) # {}

AllPairsAtStart ==
    \A i \in 1..(Len(dates) - 1) : ParName(dates[i], dates[i + 1]) \in atStart

\* C5: a run in a working directory that holds the parameter file of every
\* adjacent pair invokes no offset-estimation tool
RerunEstimatesNothing == AllPairsAtStart => NoEstimation

RerunWitness ==
    /\ run = 2
    /\ pc = "done"
    /\ Len(dates) = 3
    /\ AllPairsAtStart

\* C6: rtc_granule for a scene i > 1 is given the file fix_diff_par wrote
\* for the pair (i-1, i) as its stack argument
StackFilePassed ==
    \A k \in 1..Len(log) :
        (log[k].tool = "rtc_granule" /\ log[k].i > 1)
            => log[k].stack
                 = <<AccumName(ParName(dates[log[k].i - 1], dates[log[k].i]))>>

\* C7 as stated: the other lines are kept and the two coefficients read
\* back are exactly ra and az
RoundTripExact ==
    ret.done =>
        /\ Len(ret.out) = Len(call.lines)
        /\ \A i \in 1..Len(call.lines) :
              call.lines[i].key \notin {RangeKey, AzKey} => ret.out[i] = call.lines[i]
        /\ Leading(ret.out, RangeKey) = call.ra
        /\ Leading(ret.out, AzKey) = call.az

\* C7: the file written has the lines of the input in their order, the
\* two polynomial lines excepted, and the coefficients read back from
\* these are ra and az to 12 significant digits: exactly ra and az when
\* they have no more digits than that
RoundTrip12 ==
    ret.done =>
        /\ Len(ret.out) = Len(call.lines)
        /\ \A i \in 1..Len(call.lines) :
              /\ ret.out[i].key = call.lines[i].key
              /\ call.lines[i].key \notin {RangeKey, AzKey} => ret.out[i] = call.lines[i]
              /\ call.lines[i].key \in {RangeKey, AzKey} =>
                    ret.out[i].val = <<ret.out[i].val[1], Zero, Zero, Zero, Zero, Zero>>
        /\ Leading(ret.out, RangeKey) = RoundSig(call.ra, StrPrecision)
        /\ Leading(ret.out, AzKey) = RoundSig(call.az, StrPrecision)
        /\ Len(call.ra.dig) <= StrPrecision => Leading(ret.out, RangeKey) = call.ra
        /\ Len(call.az.dig) <= StrPrecision => Leading(ret.out, AzKey) = call.az

RoundTripWitness ==
    /\ ret.done
    /\ Len(call.ra.dig) > StrPrecision
    /\ Len(call.az.dig) <= StrPrecision
    /\ call.az # call.ra
    /\ Leading(call.lines, RangeKey) # Zero
    /\ Leading(ret.out, RangeKey) # call.ra
    /\ Leading(ret.out, AzKey) = call.az

\* the third field of a name made by NameAt: its place in the input
Place(fi) == fi.f[3].w

\* C8: for a list of names that all carry a date token, get_dates returns
\* the files in non-decreasing order of date, a permutation of the input,
\* the dates aligned with the files, names of equal date in input order
GetDatesSortsStably ==
    (ret.done /\ ret.out.ok) =>
        LET fl == call.file_list
            files == ret.out.files
            ds == ret.out.dates
        IN  /\ Len(files) = Len(fl)
            /\ Len(ds) = Len(fl)
            /\ \A i \in 1..Len(fl) : \E j \in 1..Len(files) : files[j] = fl[i]
            /\ \A i, j \in 1..Len(files) : i # j => files[i] # files[j]
            /\ \A i \in 1..Len(files) :
                  ds[i].w = files[i].f[5].w /\ ~ds[i].lc
            /\ \A i, j \in 1..Len(files) :
                  i < j => /\ ds[i].w <= ds[j].w
                           /\ ds[i].w = ds[j].w => Place(files[i]) < Place(files[j])

GetDatesWitness ==
    /\ ret.done
    /\ ret.out.ok
    /\ Len(call.file_list) >= 3
    /\ ret.out.files # call.file_list
    /\ \E i, j \in 1..Len(call.file_list) :
          i < j /\ ret.out.dates[i] = ret.out.dates[j]
    /\ \E i \in 1..Len(call.file_list) : call.file_list[i].f[5].lc

\* C9: after a run over n scenes, distinct adjacent pairs have distinct
\* parameter files, every pair has its file, and no estimation tool was
\* run more than once for a pair
OneEstimatePerPair ==
    pc = "done" =>
        /\ \A i, j \in 1..(Len(dates) - 1) :
              i # j => ParName(dates[i], dates[i + 1]) # ParName(dates[j], dates[j + 1])
        /\ \A i \in 1..(Len(dates) - 1) :
              /\ Exists(ParName(dates[i], dates[i + 1]))
              /\ \A t \in EstTools : Count(t, i) <= 1

NoDateToken == \E i \in 1..Len(argv) : ~HasDate(argv[i], "_")

NoPartialOutput ==
    (run = 1 /\ pc = "aborted") => products = {}

\* C12: an offset-estimation tool that ends with a non-zero exit status
\* aborts the run before accumulation and product generation, except
\* init_offsetm, whose failure is followed by Tier 2 (offset_pwrm, then
\* offset_fitm) for the same pair
ToolFailureAbortsOrFallsBack ==
    \A k \in Entries(EstTools) :
        log[k].res = "fail" =>
            IF log[k].tool = "init_offsetm"
            THEN PastPairs =>
                    /\ Count("offset_pwrm", log[k].i) >= 1
                    /\ Count("offset_fitm", log[k].i) >= 1
            ELSE ~PastPairs

\* C13: the stages are ordered.  The estimation tools visit the pairs in
\* ascending order; when accumulation and product generation begin the
\* file of every pair is there and no estimation tool runs any more; the
\* scenes are generated in ascending order, scene i only once the totals
\* of scene i have been computed.
StagesOrdered ==
    LET est == Entries(EstTools)
        rtc == Entries({"rtc_granule"})
    IN  /\ \A k \in est : \A l \in est : k < l => log[k].i <= log[l].i
        /\ \A k \in est : \A l \in rtc : k < l
        /\ PastPairs =>
               \A j \in 1..(Len(dates) - 1) : Exists(ParName(dates[j], dates[j + 1]))
        /\ acc # << >> => pc \in {"stack", "done", "aborted"}
        /\ \A k \in rtc :
               /\ log[k].i = Cardinality({l \in rtc : l <= k})
               /\ Len(acc) >= log[k].i

\* three scenes, both pairs estimated in this run, all scenes generated
StagesOrderedWitness ==
    /\ pc = "done"
    /\ Len(acc) = 3
    /\ Count("init_offsetm", 1) = 1
    /\ Count("init_offsetm", 2) = 1
    /\ Cardinality(Entries({"rtc_granule"})) = 3

\* the grid was an argument of the estimation tools in an earlier run: the
\* file of a pair it belongs to was there when this run began
GridRead(g) ==
    \E par \in atStart : ~par.accum /\ DateOf(g, "-") \in {par.a, par.b}

\* C14: artifacts are created if absent and then left alone.  A multi-look
\* grid (VV or HH) that an earlier run has read is not written by
\* ingestion again, no tool that writes the file of a pair is run on a
\* file that was there when the run began, and the file with the
\* accumulated totals is another file than the pair's, which stays in place.
ArtifactsImmutable ==
    /\ \A k \in Entries({"ingest_S1_granule"}) :
           log[k].res = "rewritten" => ~GridRead(argv[log[k].i].tiff)
    /\ \A k \in Entries({"create_diff_par", "init_offsetm"}) :
           ParName(dates[log[k].i], dates[log[k].i + 1]) \notin atStart
    /\ \A par \in DOMAIN disk :
           par.accum => [par EXCEPT !.accum = FALSE] \in DOMAIN disk

\* C15 as stated: offset_pwrm is invoked for a pair only if init_offsetm
\* failed for that pair
PwrmOnlyAfterTier1Failure ==
    \A k \in Entries({"offset_pwrm"}) : Tier1Failed(log[k].i)

\* C15: offset_pwrm is invoked for every estimated pair once the offsets
\* have been read back, also when init_offsetm succeeded: unless the
\* process is killed in between, a successful init_offsetm is followed by
\* exactly one offset_pwrm of the same pair, and a pair sees offset_pwrm a
\* second time only if init_offsetm raised
PwrmAfterReadBack ==
    /\ \A k \in Entries({"init_offsetm"}) :
           log[k].res = "ok" =>
               /\ IF k < Len(log)
                  THEN log[k + 1].tool = "offset_pwrm" /\ log[k + 1].i = log[k].i
                  ELSE pc \in {"read", "pwrm"} \/ status = "killed"
               /\ Count("offset_pwrm", log[k].i) <= 1
    /\ \A k \in Entries({"offset_pwrm"}) :
           LET n == Count("offset_pwrm", log[k].i)
           IN  /\ n <= 2
               /\ n = 2 =>
                      \E l \in 1..k : /\ log[l].tool = "init_offsetm"
                                      /\ log[l].i = log[k].i
                                      /\ log[l].res = "raise"

\* both pairs of three scenes estimated by init_offsetm alone, each
\* followed by its offset_pwrm
PwrmAfterReadBackWitness ==
    /\ pc = "done"
    /\ Len(sorted_mgrd) = 3
    /\ \A i \in 1..2 :
          /\ ~Tier1Failed(i)
          /\ Count("init_offsetm", i) = 1
          /\ Count("offset_pwrm", i) = 1

\* the files with accumulated totals in the working directory
AccumFiles == {par \in DOMAIN disk : par.accum}

\* C16: a first run over a chain of n scenes that runs to its end has
\* generated the reference scene exactly once, with no stack file, and has
\* left exactly n-1 files with accumulated totals, one per other scene
ReferenceOnceAccumPerScene ==
    (run = 1 /\ pc = "done" /\ Len(sorted_mgrd) >= 1) =>
        /\ Count("rtc_granule", 1) = 1
        /\ \A k \in Entries({"rtc_granule"}) : log[k].i = 1 => log[k].stack = << >>
        /\ Cardinality(AccumFiles) = Len(sorted_mgrd) - 1

\* the value, in units, of a coordinate as written into the file
Written(t) == ToUnits(float(t))

\* C17: create_dem_par moves x_max and y_max up and x_min and y_min down
\* to the nearest multiple of post, so that the snapped extent contains the
\* projected one; width and height are floor(|span| / pixel_size) of the
\* snapped spans; and the upper-left corner written for a scene differs from
\* the corner written for any earlier scene by a multiple of post in each
\* axis
DemSnapped ==
    (call.fn = "create_dem_par" /\ ret.out # << >>) =>
        LET e == call.extent
            r == ret.out
            g == call.post * Unit
            p == call.pixel_size * Unit
        IN  /\ \A v \in {r.x_min, r.x_max, r.y_min, r.y_max} : v % g = 0
            /\ e.x_max <= r.x_max /\ r.x_max < e.x_max + g
            /\ e.y_max <= r.y_max /\ r.y_max < e.y_max + g
            /\ r.x_min <= e.x_min /\ e.x_min < r.x_min + g
            /\ r.y_min <= e.y_min /\ e.y_min < r.y_min + g
            /\ r.xsize * p <= Abs(r.x_max - r.x_min)
            /\ Abs(r.x_max - r.x_min) < (r.xsize + 1) * p
            /\ r.ysize * p <= Abs(r.y_max - r.y_min)
            /\ Abs(r.y_max - r.y_min) < (r.ysize + 1) * p
            /\ Written(r.corner[1]) = r.y_max
            /\ Written(r.corner[2]) = r.x_min
            /\ ret.earlier # << >> =>
                   \A a \in 1..2 :
                       (Written(r.corner[a]) - Written(ret.earlier[a])) % g = 0

\* a scene with a negative x_min and a positive y_max off the multiples of
\* a post above one metre, after a scene with another corner
DemSnappedWitness ==
    /\ call.fn = "create_dem_par"
    /\ ret.out # << >>
    /\ ret.earlier # << >>
    /\ call.post > 1
    /\ call.extent.x_min < 0
    /\ call.extent.y_max > 0
    /\ call.extent.x_min % (call.post * Unit) # 0
    /\ call.extent.y_max % (call.post * Unit) # 0
    /\ ret.out.xsize > 0
    /\ ret.earlier[1] # ret.out.corner[1]
    /\ ret.earlier[2] # ret.out.corner[2]

\* the file holds offsets an estimation tool has written
HoldsEstimate(par) == disk[par] # NewDiffPar

\* C18: with runs that are killed and started again, the file of a pair
\* that a run finds in the working directory holds a completed estimate,
\* and the totals are accumulated from files that hold one
ResumeFindsEstimates ==
    /\ \A par \in atStart : ~par.accum => HoldsEstimate(par)
    /\ \A j \in 2..Len(acc) : HoldsEstimate(ParName(dates[j - 1], dates[j]))

\* C19: when ingestion returns another number of grids than there are
\* scenes, the run ends at the date check with the mismatch error and no
\* offset-estimation tool has run
CountMismatchAborts ==
    (pc \notin {"ingest", "dem", "sort"} /\ Len(mgrd_files) # Len(infiles))
        => (pc = "aborted" /\ status = "mismatch" /\ NoEstimation)

====
